---- MODULE Spec2Model ----
(***************************************************************************)
(* Model of the research-paper pipeline of openAlex.py and                 *)
(* searched_research.py: Decomposer (generate_subcategories), Subcategory  *)
(* Researcher (research_subcategory), Paper Coalescer (generate_*_document)*)
(* and the reference consolidation, together with main().                  *)
(*                                                                         *)
(* Text is modelled as a sequence of one-character strings, so that        *)
(* str.strip, str.split, str.lower, the regular expression of the          *)
(* Decomposer and sorted(set(...)) are computed character by character.    *)
(***************************************************************************)
EXTENDS Integers, Sequences, FiniteSets, TLC

(* ---------------------------------------------------------------------- *)
(* Bounds of the model                                                     *)
(* ---------------------------------------------------------------------- *)
MaxRespLen == 4      \* longest enumerated Decomposer response
MaxRefLen == 3       \* longest enumerated reference string
MaxRefs == 2         \* longest enumerated reference sequence
MaxResults == 2      \* most records an Evidence Provider answer carries

\* Python's None where a str is expected: no text equals it, since every
\* element of a text is a single character.
None == <<"None">>

\* Python's None where a list of str is expected.
NoneList == <<None>>

\* make_llm_request returned None (missing key, non-200 status, transport
\* error); a decoded body is [ok |-> TRUE, data |-> text].
NoResponse == [ok |-> FALSE, data |-> <<>>]

(* ---------------------------------------------------------------------- *)
(* Python str helpers                                                      *)
(* ---------------------------------------------------------------------- *)

\* Characters removed by str.strip() and matched by \s.
Whitespace == {" ", "\t", "\n", "\r"}

Digits == {"0", "1", "2", "3", "4", "5", "6", "7", "8", "9"}

\* Code point of the characters the model uses (Python compares str by
\* code point).
Ord(c) ==
  CASE c = "\t" -> 9   [] c = "\n" -> 10  [] c = "\r" -> 13  [] c = " " -> 32
    [] c = "(" -> 40   [] c = ")" -> 41   [] c = "*" -> 42   [] c = "," -> 44
    [] c = "-" -> 45
    [] c = "." -> 46   [] c = "1" -> 49   [] c = "2" -> 50   [] c = "3" -> 51
    [] c = ":" -> 58   [] c = "A" -> 65   [] c = "B" -> 66   [] c = "F" -> 70
    [] c = "Q" -> 81   [] c = "T" -> 84   [] c = "U" -> 85   [] c = "a" -> 97
    [] c = "b" -> 98   [] c = "d" -> 100  [] c = "n" -> 110
    [] c = "u" -> 117  [] c = "x" -> 120
    [] OTHER -> 122

\* s[i..] and s[..i] with Python's clamping.
Drop(s, n) == SubSeq(s, n + 1, Len(s))

Take(s, n) == SubSeq(s, 1, n)

\* Number of leading characters of s that belong to cs.
RECURSIVE LeadCount(_, _)
LeadCount(s, cs) ==
  IF s = <<>> \/ Head(s) \notin cs THEN 0 ELSE 1 + LeadCount(Tail(s), cs)

\* Number of trailing characters of s that belong to cs.
RECURSIVE TrailCount(_, _)
TrailCount(s, cs) ==
  IF s = <<>> \/ s[Len(s)] \notin cs THEN 0
  ELSE 1 + TrailCount(Take(s, Len(s) - 1), cs)

\* str.strip(chars): removes every leading and trailing character of cs.
StripChars(s, cs) ==
  LET l == LeadCount(s, cs)
      r == Drop(s, l)
  IN  Take(r, Len(r) - TrailCount(r, cs))

\* A wrong strip that removes at most one character from each end.
strip_once(s) ==
  LET r == IF s # <<>> /\ Head(s) \in Whitespace THEN Tail(s) ELSE s
  IN  IF r # <<>> /\ r[Len(r)] \in Whitespace THEN Take(r, Len(r) - 1) ELSE r

\* A wrong strip that only removes leading whitespace (str.lstrip).
strip_left(s) == Drop(s, LeadCount(s, Whitespace))

\* str.strip()
strip(s) == StripChars(s, Whitespace)

\* Index of the first occurrence of c in s, 0 when absent.
RECURSIVE IndexOf(_, _)
IndexOf(s, c) ==
  IF s = <<>> THEN 0
  ELSE IF Head(s) = c THEN 1
  ELSE LET r == IndexOf(Tail(s), c) IN IF r = 0 THEN 0 ELSE r + 1

\* str.split(sep) for a one-character separator.
RECURSIVE split(_, _)
split(s, sep) ==
  LET i == IndexOf(s, sep)
  IN  IF i = 0 THEN <<s>>
      ELSE <<Take(s, i - 1)>> \o split(Drop(s, i), sep)

\* Python's < on str: code point by code point, a proper prefix is smaller.
RECURSIVE StrLess(_, _)
StrLess(a, b) ==
  IF b = <<>> THEN FALSE
  ELSE IF a = <<>> THEN TRUE
  ELSE IF Head(a) # Head(b) THEN Ord(Head(a)) < Ord(Head(b))
  ELSE StrLess(Tail(a), Tail(b))

\* sorted(list(S)) for a set S of str.
RECURSIVE sorted(_)
sorted(S) ==
  IF S = {} THEN <<>>
  ELSE LET m == CHOOSE x \in S : \A y \in S \ {x} : StrLess(x, y)
       IN  <<m>> \o sorted(S \ {m})

\* All sequences over S of length at most n.
SeqsUpTo(S, n) == UNION {[1..k -> S] : k \in 0..n}

Range(s) == {s[i] : i \in 1..Len(s)}

\* "\n".join-style concatenation of a sequence of str with separator sep.
RECURSIVE join(_, _)
join(sep, xs) ==
  IF xs = <<>> THEN <<>>
  ELSE IF Len(xs) = 1 THEN xs[1]
  ELSE xs[1] \o sep \o join(sep, Tail(xs))

(* ---------------------------------------------------------------------- *)
(* Decomposer: generate_subcategories                                      *)
(* ---------------------------------------------------------------------- *)

\* re.match(r'^\d+\.\s*(.*?)(?::.*)?$', line).group(1), None without a
\* match.  \d+ takes the leading digits, \. the period after them, \s* the
\* whitespace that follows, and the lazy group stops at the first colon or
\* at the end of the line.
match_group1(line) ==
  LET k == LeadCount(line, Digits)
  IN  IF k = 0 \/ k >= Len(line) \/ line[k + 1] # "." THEN None
      ELSE LET rest == Drop(line, k + 1)
               body == Drop(rest, LeadCount(rest, Whitespace))
               c    == IndexOf(body, ":")
           IN  IF c = 0 THEN body ELSE Take(body, c - 1)

\* A wrong label extraction that forgets subcategory.strip('**').
label_keep_stars(line) == strip(match_group1(line))

\* subcategory = match.group(1).strip(); subcategory.strip('**')
label(line) == StripChars(strip(match_group1(line)), {"*"})

\* The for loop over raw_response.split('\n').
RECURSIVE parse_lines(_)
parse_lines(lines) ==
  IF lines = <<>> THEN <<>>
  ELSE LET line == strip(Head(lines))
       IN  (IF match_group1(line) # None THEN <<label(line)>> ELSE <<>>)
           \o parse_lines(Tail(lines))

\* A wrong Decomposer that reports an empty list as a success.
generate_subcategories_empty_ok(response) ==
  IF response.ok
  THEN parse_lines(split(strip(response.data), "\n"))
  ELSE NoneList

\* generate_subcategories, given what make_llm_request returned.
generate_subcategories(response) ==
  IF response.ok
  THEN LET subs == parse_lines(split(strip(response.data), "\n"))
       IN  IF subs # <<>> THEN subs ELSE NoneList
  ELSE NoneList

(* ---------------------------------------------------------------------- *)
(* Reference Consolidator                                                  *)
(* ---------------------------------------------------------------------- *)

\* A wrong consolidation that trims one character per side only.
consolidate_strip_once(refs) ==
  sorted({strip_once(refs[i]) : i \in {j \in 1..Len(refs) : strip(refs[j]) # <<>>}})

\* A wrong consolidation that trims the left side only.
consolidate_strip_left(refs) ==
  sorted({strip_left(refs[i]) : i \in {j \in 1..Len(refs) : strip(refs[j]) # <<>>}})

\* sorted(list(set(ref.strip() for ref in all_references if ref.strip())))
consolidate(refs) ==
  sorted({strip(refs[i]) : i \in {j \in 1..Len(refs) : strip(refs[j]) # <<>>}})

(* ---------------------------------------------------------------------- *)
(* Subcategory Researcher: research_subcategory                            *)
(* ---------------------------------------------------------------------- *)

\* A key that the JSON object does not carry.
Absent == <<"Absent">>

\* Works as the OpenAlex API returns them (openAlex.py).
Work1 ==
  [title |-> <<"T">>, authorships |-> << <<"A">> >>,
   doi |-> <<"d">>, publication_year |-> <<"1">>]

Work2 ==
  [title |-> <<"U">>, authorships |-> << <<"A">>, <<"B">> >>,
   doi |-> None, publication_year |-> Absent]

\* A work one of whose authors has display_name null.
WorkNoName ==
  [title |-> <<"T">>, authorships |-> << None >>,
   doi |-> None, publication_year |-> <<"1">>]

\* Items as the Google Custom Search API returns them (searched_research.py).
Item1 == [title |-> <<"T">>, link |-> <<"u">>]

Item2 == [title |-> <<"U">>, link |-> <<"u">>]

\* The k-th record of the provider's answer for a variant.
RecordAt(variant, k) ==
  IF variant = "openalex" THEN (IF k % 2 = 1 THEN Work1 ELSE Work2)
  ELSE (IF k % 2 = 1 THEN Item1 ELSE Item2)

\* openalex_search(search_query, limit=5, ...) sends 'per-page': 5.
OpenAlexLimit == 5

\* google_search builds its URL from key, cx and q only; without a num
\* parameter the Custom Search API answers with up to 10 items.
GoogleDefaultNum == 10

\* No result count in the request.
NoCount == 0

\* The result count the request of a variant carries.
requested_count(variant) == IF variant = "openalex" THEN OpenAlexLimit ELSE NoCount

\* The most records one answer of the provider carries.
page_size(variant) == IF variant = "openalex" THEN OpenAlexLimit ELSE GoogleDefaultNum

\* What the HTTP GET of the Evidence Provider can decode to: a list of up
\* to MaxResults records or a full page; [] also stands for a transport
\* error, which both providers turn into [].
ProviderAnswers(variant) ==
  {[i \in 1..k |-> RecordAt(variant, i)] :
     k \in ((0..MaxResults) \cap (0..page_size(variant))) \cup {page_size(variant)}}
    \cup (IF variant = "openalex" THEN {<<WorkNoName>>} ELSE {})

\* ", ".join(...) raises TypeError when a display_name is None.
join_raises(result) == \E i \in 1..Len(result.authorships) : result.authorships[i] = None

\* ref_string of one search result.
ref_string(variant, result) ==
  IF variant = "openalex"
  THEN join(<<",", " ">>, result.authorships) \o <<" ", "(">>
         \o (IF result.publication_year = Absent THEN <<"n", ".", "d", ".">>
             ELSE result.publication_year)
         \o <<")", ".", " ">> \o result.title \o <<".">>
         \o (IF result.doi # None /\ result.doi # <<>> THEN <<" ">> \o result.doi ELSE <<>>)
  ELSE result.title \o <<".", " ">> \o result.link

\* The loop "for result in search_results: ... references.append(ref_string)".
build_references(variant, search_results) ==
  [i \in 1..Len(search_results) |-> ref_string(variant, search_results[i])]

\* A wrong short-circuit test that never takes the early return.
no_results_never(search_results) == FALSE

\* "if not search_results"
no_results(search_results) == search_results = <<>>

\* A wrong failure return that hands back the collected references.
synthesis_failed_keep(references) == [text |-> None, refs |-> references]

\* The closing "return None, []" of research_subcategory.
synthesis_failed(references) == [text |-> None, refs |-> <<>>]

\* What research_subcategory returns once make_llm_request has answered.
research_return(response, references) ==
  IF response.ok THEN [text |-> strip(response.data), refs |-> references]
  ELSE synthesis_failed(references)

\* Python truthiness of research_text / final_doc_path / a text.
truthy(x) == x # None /\ x # <<>>

(* ---------------------------------------------------------------------- *)
(* Paper Coalescer and Document Emitter: generate_*_document               *)
(* ---------------------------------------------------------------------- *)

UpperCase ==
  <<"A", "B", "C", "D", "E", "F", "G", "H", "I", "J", "K", "L", "M",
    "N", "O", "P", "Q", "R", "S", "T", "U", "V", "W", "X", "Y", "Z">>

LowerCase ==
  <<"a", "b", "c", "d", "e", "f", "g", "h", "i", "j", "k", "l", "m",
    "n", "o", "p", "q", "r", "s", "t", "u", "v", "w", "x", "y", "z">>

\* str.lower()
lower(s) ==
  [i \in 1..Len(s) |->
     IF \E k \in 1..26 : UpperCase[k] = s[i]
     THEN LowerCase[CHOOSE k \in 1..26 : UpperCase[k] = s[i]]
     ELSE s[i]]

\* A wrong emptiness test that accepts any decoded body.
paper_ok_any(response) == response.ok

\* "if response:" followed by "if not plain_text_paper: return None".
paper_ok(response) == response.ok /\ response.data # <<>>

References_txt == <<"\n", "\n", "R", "e", "f", "e", "r", "e", "n", "c", "e", "s", "\n", "\n">>

References_md ==
  <<"\n", "\n", "#", "#", " ", "R", "e", "f", "e", "r", "e", "n", "c", "e", "s", "\n", "\n">>

References_docx == <<"R", "e", "f", "e", "r", "e", "n", "c", "e", "s">>

SectionNames ==
  { <<"t", "i", "t", "l", "e">>,
    <<"a", "b", "s", "t", "r", "a", "c", "t">>,
    <<"i", "n", "t", "r", "o", "d", "u", "c", "t", "i", "o", "n">>,
    <<"c", "o", "n", "c", "l", "u", "s", "i", "o", "n">> }

\* re.match(r'^[A-Z][a-zA-Z\s,]+$', line)
heading2_match(line) ==
  /\ Len(line) >= 2
  /\ line[1] \in Range(UpperCase)
  /\ \A i \in 2..Len(line) :
       line[i] \in Range(UpperCase) \cup Range(LowerCase) \cup Whitespace \cup {","}

\* add_dynamic_headings: one document element per non-blank line.
RECURSIVE add_dynamic_headings(_)
add_dynamic_headings(lines) ==
  IF lines = <<>> THEN <<>>
  ELSE LET line == strip(Head(lines))
       IN  (IF line = <<>> THEN <<>>
            ELSE IF lower(line) \in SectionNames
              THEN <<[style |-> "heading1", text |-> line]>>
            ELSE IF heading2_match(line)
              THEN <<[style |-> "heading2", text |-> line]>>
            ELSE <<[style |-> "paragraph", text |-> line]>>)
           \o add_dynamic_headings(Tail(lines))

\* The content generate_txt_document writes.
txt_content(paper, refs) ==
  paper \o References_txt \o join(<<"\n">>, consolidate(refs))

\* A wrong Markdown rendering that lists the references as collected.
md_content_raw(paper, refs) ==
  paper \o References_md
    \o join(<<"\n">>, [i \in 1..Len(refs) |-> <<"-", " ">> \o refs[i]])

\* The content generate_markdown_document writes.
md_content(paper, refs) ==
  LET unique_refs == consolidate(refs)
  IN  paper \o References_md
        \o join(<<"\n">>, [i \in 1..Len(unique_refs) |-> <<"-", " ">> \o unique_refs[i]])

\* The document generate_docx_document saves.
docx_content(paper, refs) ==
  LET unique_refs == consolidate(refs)
  IN  add_dynamic_headings(split(paper, "\n"))
        \o (IF unique_refs # <<>>
            THEN <<[style |-> "heading1", text |-> References_docx]>>
                   \o [i \in 1..Len(unique_refs) |->
                         [style |-> "reference", text |-> unique_refs[i]]]
            ELSE <<>>)

Fmt_txt == <<"t", "x", "t">>

Fmt_md == <<"m", "d">>

Fmt_docx == <<"d", "o", "c", "x">>

\* The file a generate_*_document call writes for a format.
document(doc_format, paper, refs) ==
  IF doc_format = Fmt_txt THEN [ext |-> doc_format, text |-> txt_content(paper, refs), doc |-> <<>>]
  ELSE IF doc_format = Fmt_md THEN [ext |-> doc_format, text |-> md_content(paper, refs), doc |-> <<>>]
  ELSE [ext |-> doc_format, text |-> <<>>, doc |-> docx_content(paper, refs)]

(* ---------------------------------------------------------------------- *)
(* main                                                                    *)
(* ---------------------------------------------------------------------- *)

\* A wrong format list that lets "pdf" through.
valid_formats_with_pdf == {Fmt_txt, Fmt_md, Fmt_docx, <<"p", "d", "f">>}

\* ['txt', 'md', 'docx']
valid_formats == {Fmt_txt, Fmt_md, Fmt_docx}

\* A wrong abort test that gives up as soon as one subcategory failed.
no_findings_any(findings, subs) == Len(findings) < Len(subs)

\* A wrong abort test that never gives up.
no_findings_never(findings, subs) == FALSE

\* "if not all_research_findings"
no_findings(findings, subs) == findings = <<>>

\* A wrong accumulation that puts the newest narrative first.
collect_findings_front(findings, r) ==
  IF truthy(r.text) THEN <<r.text>> \o findings ELSE findings

\* "if research_text: all_research_findings.append(research_text)"
collect_findings(findings, r) ==
  IF truthy(r.text) THEN Append(findings, r.text) ELSE findings

\* A wrong accumulation that keeps the references of every subcategory.
collect_references_always(refs, r) == refs \o r.refs

\* "if research_text: ... all_references.extend(references)"
collect_references(refs, r) ==
  IF truthy(r.text) THEN refs \o r.refs ELSE refs

\* A wrong loop that researches a failed subcategory again.
next_index_retry(i, r) == IF truthy(r.text) THEN i + 1 ELSE i

\* "for subcategory in subcategories": the loop moves on whatever was returned.
next_index(i, r) == i + 1

\* make_llm_request: without AMPLIFY_API_KEY it returns None before any
\* request is sent; otherwise it returns what the POST decoded to.
make_llm_request(environ, http) ==
  IF ~environ.AMPLIFY_API_KEY THEN NoResponse ELSE http

\* validate_google_search_api_key
google_credentials(environ) == environ.GOOGLE_SEARCH_API_KEY /\ environ.GOOGLE_CSE_ID

(* ---------------------------------------------------------------------- *)
(* State                                                                   *)
(* ---------------------------------------------------------------------- *)

VARIABLES
  pc,                     \* position of main()
  variant,                \* "openalex" (openAlex.py) or "search" (searched_research.py)
  environ,                \* which credentials os.getenv finds
  main_topic,             \* main(): main_topic
  format_input,           \* main(): the format token as typed
  doc_format,             \* main(): doc_format, the token lowercased
  subcategories,          \* main(): subcategories
  idx,                    \* position of "for subcategory in subcategories"
  search_results,         \* research_subcategory: search_results
  references,             \* research_subcategory: references
  ret,                    \* what research_subcategory returned
  results,                \* the SubcategoryResults so far, one per finished iteration
  all_research_findings,  \* main(): all_research_findings
  all_references,         \* main(): all_references
  unique_references,      \* generate_*_document: unique_references
  response,               \* what make_llm_request returned last
  calls,                  \* the network requests sent so far
  files,                  \* the files written so far
  printed,                \* the closing message of the run on stdout, "" so far
  exit_status             \* process exit status, Running until it ends

vars ==
  <<pc, variant, environ, main_topic, format_input, doc_format, subcategories,
    idx, search_results, references, ret, results, all_research_findings,
    all_references, unique_references, response, calls, files, printed,
    exit_status>>

Running == -1

\* The messages a run can close with.
MsgNoKey == "Error: AMPLIFY_API_KEY not found in environment variables."

MsgNoTopic == "No topic entered. Exiting."

MsgInvalidFormat == "Invalid format. Please choose 'txt', 'md', or 'docx'. Exiting."

MsgNoSubcategories == "Cannot proceed without subcategories."

MsgNoData == "No research data was collected. Exiting."

MsgNoPaper == "Failed to generate the final research paper."

MsgSaved == "Final research paper saved to 'research_paper_<timestamp>.<ext>'"

MsgCancelled == "Operation cancelled by user."

MsgUnexpected == "An unexpected error occurred"

NoReturn == [text |-> None, refs |-> <<>>]

(* ---------------------------------------------------------------------- *)
(* Inputs                                                                  *)
(* ---------------------------------------------------------------------- *)

Topics == { <<>>, <<"t">> }

FormatInputs ==
  { Fmt_txt, Fmt_md, Fmt_docx, <<"p", "d", "f">>, <<"T", "X", "T">> }

\* Texts the engine may answer the Decomposer with.
DecomposerTexts ==
  { <<>>,
    <<"x">>,
    <<"1", ".", " ", "a">>,
    <<"1", ".", " ", "a", ":", " ", "x", "\n", "*", "*", "\n",
      "2", ".", " ", "*", "*", "b", "*", "*">>,
    <<"1", ".", "a", "\n", "2", ".", "b", "\n", "3", ".", "a">> }

\* Texts the engine may answer a synthesis request with.
SynthesisTexts == { <<>>, <<" ">>, <<"a">>, <<"b">> }

\* Texts the engine may answer the Coalescer with.
PaperTexts ==
  { <<>>,
    <<"A", "b", "\n", "x">>,
    <<"x", "\n", "#", "#", " ", "R", "e", "f", "e", "r", "e", "n", "c", "e", "s">> }

\* What a POST to the engine can come back as.
HttpOutcomes(texts) == {NoResponse} \cup {[ok |-> TRUE, data |-> t] : t \in texts}

Environments ==
  [AMPLIFY_API_KEY : BOOLEAN, GOOGLE_SEARCH_API_KEY : BOOLEAN, GOOGLE_CSE_ID : BOOLEAN]

EngineCall(by, sub) == [svc |-> "engine", by |-> by, sub |-> sub, count |-> NoCount]

EvidenceCall(sub) ==
  [svc |-> "evidence", by |-> "research", sub |-> sub, count |-> requested_count(variant)]

(* ---------------------------------------------------------------------- *)
(* main(), step by step                                                    *)
(* ---------------------------------------------------------------------- *)

Init ==
  /\ pc = "validate"
  /\ variant \in {"openalex", "search"}
  /\ environ \in Environments
  /\ variant = "openalex" => ~environ.GOOGLE_SEARCH_API_KEY /\ ~environ.GOOGLE_CSE_ID
  /\ main_topic = None
  /\ format_input = None
  /\ doc_format = None
  /\ subcategories = NoneList
  /\ idx = 0
  /\ search_results = <<>>
  /\ references = <<>>
  /\ ret = NoReturn
  /\ results = <<>>
  /\ all_research_findings = <<>>
  /\ all_references = <<>>
  /\ unique_references = <<>>
  /\ response = NoResponse
  /\ calls = <<>>
  /\ files = <<>>
  /\ printed = ""
  /\ exit_status = Running

\* "if not validate_api_key(): sys.exit(1)"
ValidateKey ==
  /\ pc = "validate" /\ exit_status = Running
  /\ IF environ.AMPLIFY_API_KEY
     THEN pc' = "topic" /\ UNCHANGED <<exit_status, printed>>
     ELSE exit_status' = 1 /\ printed' = MsgNoKey /\ UNCHANGED pc
  /\ UNCHANGED <<variant, environ, main_topic, format_input, doc_format,
                 subcategories, idx, search_results, references, ret, results,
                 all_research_findings, all_references, unique_references,
                 response, calls, files>>

\* main_topic = input(...); "if not main_topic: sys.exit(1)"
ReadTopic ==
  /\ pc = "topic" /\ exit_status = Running
  /\ \E t \in Topics :
       /\ main_topic' = t
       /\ IF t = <<>>
          THEN exit_status' = 1 /\ printed' = MsgNoTopic /\ UNCHANGED pc
          ELSE pc' = "format" /\ UNCHANGED <<exit_status, printed>>
  /\ UNCHANGED <<variant, environ, format_input, doc_format,
                 subcategories, idx, search_results, references, ret, results,
                 all_research_findings, all_references, unique_references,
                 response, calls, files>>

\* doc_format = input(...).lower(); "if doc_format not in [...]: sys.exit(1)"
ReadFormat ==
  /\ pc = "format" /\ exit_status = Running
  /\ \E f \in FormatInputs :
       /\ format_input' = f
       /\ doc_format' = lower(f)
       /\ IF lower(f) \notin valid_formats
          THEN exit_status' = 1 /\ printed' = MsgInvalidFormat /\ UNCHANGED pc
          ELSE pc' = "decompose" /\ UNCHANGED <<exit_status, printed>>
  /\ UNCHANGED <<variant, environ, main_topic,
                 subcategories, idx, search_results, references, ret, results,
                 all_research_findings, all_references, unique_references,
                 response, calls, files>>

\* subcategories = generate_subcategories(main_topic);
\* "if not subcategories: sys.exit(1)"; the accumulators are created.
Decompose ==
  /\ pc = "decompose" /\ exit_status = Running
  /\ \E http \in HttpOutcomes(DecomposerTexts) :
       LET r    == make_llm_request(environ, http)
           subs == generate_subcategories(r)
       IN  /\ response' = r
           /\ calls' = IF environ.AMPLIFY_API_KEY
                       THEN Append(calls, EngineCall("decompose", 0)) ELSE calls
           /\ subcategories' = subs
           /\ IF subs = NoneList \/ subs = <<>>
              THEN exit_status' = 1 /\ printed' = MsgNoSubcategories /\ UNCHANGED <<pc, idx>>
              ELSE pc' = "research" /\ idx' = 1 /\ UNCHANGED <<exit_status, printed>>
  /\ UNCHANGED <<variant, environ, main_topic, format_input, doc_format,
                 search_results, references, ret, results,
                 all_research_findings, all_references, unique_references, files>>

\* research_subcategory up to its synthesis request: the Evidence Provider
\* is queried, then either the early return or the reference loop.
GatherEvidence ==
  /\ pc = "research" /\ exit_status = Running
  /\ \E answer \in ProviderAnswers(variant) :
       LET sent == variant = "openalex" \/ google_credentials(environ)
           found == IF sent THEN answer ELSE <<>>
       IN  /\ calls' = IF sent THEN Append(calls, EvidenceCall(idx)) ELSE calls
           /\ search_results' = found
           /\ IF no_results(found)
              THEN /\ ret' = [text |-> None, refs |-> <<>>]
                   /\ pc' = "collect"
                   /\ UNCHANGED <<references, exit_status, printed>>
              ELSE IF variant = "openalex" /\ \E i \in 1..Len(found) : join_raises(found[i])
              THEN \* TypeError, caught by "except Exception" of main()
                   /\ exit_status' = 1
                   /\ printed' = MsgUnexpected
                   /\ UNCHANGED <<pc, ret, references>>
              ELSE /\ references' = build_references(variant, found)
                   /\ pc' = "synth"
                   /\ UNCHANGED <<ret, exit_status, printed>>
  /\ UNCHANGED <<variant, environ, main_topic, format_input, doc_format,
                 subcategories, idx, results, all_research_findings,
                 all_references, unique_references, response, files>>

\* research_subcategory from its synthesis request to its return.
Synthesize ==
  /\ pc = "synth" /\ exit_status = Running
  /\ \E http \in HttpOutcomes(SynthesisTexts) :
       LET r == make_llm_request(environ, http)
       IN  /\ response' = r
           /\ calls' = IF environ.AMPLIFY_API_KEY
                       THEN Append(calls, EngineCall("research", idx)) ELSE calls
           /\ ret' = research_return(r, references)
  /\ pc' = "collect"
  /\ UNCHANGED <<variant, environ, main_topic, format_input, doc_format,
                 subcategories, idx, search_results, references, results,
                 all_research_findings, all_references, unique_references,
                 files, printed, exit_status>>

\* The rest of one loop iteration of main(): "if research_text: append, extend".
Collect ==
  /\ pc = "collect" /\ exit_status = Running
  /\ all_research_findings' = collect_findings(all_research_findings, ret)
  /\ all_references' = collect_references(all_references, ret)
  /\ results' = Append(results, ret)
  /\ idx' = next_index(idx, ret)
  /\ pc' = IF next_index(idx, ret) <= Len(subcategories) THEN "research" ELSE "check"
  /\ search_results' = <<>>
  /\ references' = <<>>
  /\ ret' = NoReturn
  /\ UNCHANGED <<variant, environ, main_topic, format_input, doc_format,
                 subcategories, unique_references, response, calls, files,
                 printed, exit_status>>

\* "if not all_research_findings: sys.exit(1)"
CheckFindings ==
  /\ pc = "check" /\ exit_status = Running
  /\ IF no_findings(all_research_findings, subcategories)
     THEN exit_status' = 1 /\ printed' = MsgNoData /\ UNCHANGED pc
     ELSE pc' = "coalesce" /\ UNCHANGED <<exit_status, printed>>
  /\ UNCHANGED <<variant, environ, main_topic, format_input, doc_format,
                 subcategories, idx, search_results, references, ret, results,
                 all_research_findings, all_references, unique_references,
                 response, calls, files>>

\* generate_txt_document / generate_markdown_document /
\* generate_docx_document and the final "if final_doc_path" of main().
Coalesce ==
  /\ pc = "coalesce" /\ exit_status = Running
  /\ \E http \in HttpOutcomes(PaperTexts) :
       LET r == make_llm_request(environ, http)
       IN  /\ response' = r
           /\ calls' = IF environ.AMPLIFY_API_KEY
                       THEN Append(calls, EngineCall("coalesce", 0)) ELSE calls
           /\ IF paper_ok(r)
              THEN /\ unique_references' = consolidate(all_references)
                   /\ files' = Append(files, document(doc_format, r.data, all_references))
                   /\ printed' = MsgSaved
                   /\ pc' = "return"
                   /\ exit_status' = 0
              ELSE /\ exit_status' = 1
                   /\ printed' = MsgNoPaper
                   /\ UNCHANGED <<pc, unique_references, files>>
  /\ UNCHANGED <<variant, environ, main_topic, format_input, doc_format,
                 subcategories, idx, search_results, references, ret, results,
                 all_research_findings, all_references>>

MainPositions ==
  {"validate", "topic", "format", "decompose", "research", "synth", "collect",
   "check", "coalesce"}

\* "except KeyboardInterrupt: sys.exit(0)"
Interrupt ==
  /\ pc \in MainPositions /\ exit_status = Running
  /\ exit_status' = 0
  /\ printed' = MsgCancelled
  /\ UNCHANGED <<pc, variant, environ, main_topic, format_input, doc_format,
                 subcategories, idx, search_results, references, ret, results,
                 all_research_findings, all_references, unique_references,
                 response, calls, files>>

Next ==
  \/ ValidateKey
  \/ ReadTopic
  \/ ReadFormat
  \/ Decompose
  \/ GatherEvidence
  \/ Synthesize
  \/ Collect
  \/ CheckFindings
  \/ Coalesce
  \/ Interrupt

Spec == Init /\ [][Next]_vars

(* ---------------------------------------------------------------------- *)
(* The Decomposer's parser on its own                                      *)
(* ---------------------------------------------------------------------- *)

ParseAlphabet == {"1", ".", " ", ":", "*", "a", "\n"}

\* "1. Foo: bar\n2. **Baz**\nnot a line\n3. Qux"
ParserExample ==
  <<"1", ".", " ", "F", "o", "o", ":", " ", "b", "a", "r", "\n",
    "2", ".", " ", "*", "*", "B", "a", "z", "*", "*", "\n",
    "n", "o", "t", " ", "a", " ", "l", "i", "n", "e", "\n",
    "3", ".", " ", "Q", "u", "x">>

ParserExampleLabels == << <<"F", "o", "o">>, <<"B", "a", "z">>, <<"Q", "u", "x">> >>

ParseInputs ==
  {NoResponse}
    \cup {[ok |-> TRUE, data |-> t] :
            t \in SeqsUpTo(ParseAlphabet, MaxRespLen) \cup {ParserExample}}

\* Everything main() does not touch while a pure function is exercised.
Idle ==
  /\ variant = "openalex"
  /\ environ = [AMPLIFY_API_KEY |-> TRUE, GOOGLE_SEARCH_API_KEY |-> FALSE,
                GOOGLE_CSE_ID |-> FALSE]
  /\ main_topic = None
  /\ format_input = None
  /\ doc_format = None
  /\ idx = 0
  /\ search_results = <<>>
  /\ references = <<>>
  /\ ret = NoReturn
  /\ results = <<>>
  /\ all_research_findings = <<>>
  /\ calls = <<>>
  /\ files = <<>>
  /\ printed = ""
  /\ exit_status = Running

InitParse ==
  /\ Idle
  /\ pc = "parse"
  /\ response \in ParseInputs
  /\ subcategories = NoneList
  /\ all_references = <<>>
  /\ unique_references = <<>>

\* generate_subcategories from "if response:" to its return.
ParseResponse ==
  /\ pc = "parse"
  /\ subcategories' = generate_subcategories(response)
  /\ pc' = "parsed"
  /\ UNCHANGED <<variant, environ, main_topic, format_input, doc_format, idx,
                 search_results, references, ret, results,
                 all_research_findings, all_references, unique_references,
                 response, calls, files, printed, exit_status>>

NextParse == ParseResponse

SpecParse == InitParse /\ [][NextParse]_vars

(* ---------------------------------------------------------------------- *)
(* The Reference Consolidator on its own                                   *)
(* ---------------------------------------------------------------------- *)

RefAlphabet == {" ", "a"}

RefInputs == SeqsUpTo(SeqsUpTo(RefAlphabet, MaxRefLen), MaxRefs)

InitRefs ==
  /\ Idle
  /\ pc = "consolidate"
  /\ response = NoResponse
  /\ subcategories = NoneList
  /\ all_references \in RefInputs
  /\ unique_references = <<>>

\* unique_references = sorted(list(set(...)))
Consolidate ==
  /\ pc = "consolidate"
  /\ unique_references' = consolidate(all_references)
  /\ pc' = "consolidated"
  /\ UNCHANGED <<variant, environ, main_topic, format_input, doc_format,
                 subcategories, idx, search_results, references, ret, results,
                 all_research_findings, all_references, response, calls, files,
                 printed, exit_status>>

NextRefs == Consolidate

SpecRefs == InitRefs /\ [][NextRefs]_vars

(* ---------------------------------------------------------------------- *)
(* Vocabulary of the properties                                            *)
(* ---------------------------------------------------------------------- *)

\* t is s without its leading and trailing whitespace.
IsTrimOf(t, s) ==
  \E a \in 0..Len(s) : \E b \in 0..(Len(s) - a) :
    /\ t = SubSeq(s, a + 1, Len(s) - b)
    /\ \A i \in 1..a : s[i] \in Whitespace
    /\ \A i \in (Len(s) - b + 1)..Len(s) : s[i] \in Whitespace
    /\ t # <<>> => t[1] \notin Whitespace /\ t[Len(t)] \notin Whitespace

\* t is s without its leading and trailing asterisks.
IsUnstarredOf(t, s) ==
  \E a \in 0..Len(s) : \E b \in 0..(Len(s) - a) :
    /\ t = SubSeq(s, a + 1, Len(s) - b)
    /\ \A i \in 1..a : s[i] = "*"
    /\ \A i \in (Len(s) - b + 1)..Len(s) : s[i] = "*"
    /\ t # <<>> => t[1] # "*" /\ t[Len(t)] # "*"

\* l is: integer, period, anything.
IsNumbered(l) ==
  \E k \in 1..(Len(l) - 1) : l[k + 1] = "." /\ \A i \in 1..k : l[i] \in Digits

\* The line, once trimmed, is: integer, period, optional whitespace, text.
IsNumberedLine(line) ==
  \E a \in 1..Len(line) : \E b \in a..Len(line) :
    IsTrimOf(SubSeq(line, a, b), line) /\ IsNumbered(SubSeq(line, a, b))

\* lab is the text of the numbered line up to its first colon, trimmed and
\* without surrounding asterisks.
IsLabelOf(lab, line) ==
  \E a \in 1..Len(line) : \E b \in a..Len(line) :
    LET l == SubSeq(line, a, b)
    IN  /\ IsTrimOf(l, line)
        /\ \E k \in 1..(Len(l) - 1) :
             /\ l[k + 1] = "."
             /\ \A i \in 1..k : l[i] \in Digits
             /\ \E e \in (k + 1)..Len(l) :
                  /\ e = Len(l) \/ l[e + 1] = ":"
                  /\ \A i \in (k + 2)..e : l[i] # ":"
                  /\ \E c \in (k + 2)..(e + 1) : \E d \in (c - 1)..e :
                       /\ IsTrimOf(SubSeq(l, c, d), SubSeq(l, k + 2, e))
                       /\ IsUnstarredOf(lab, SubSeq(l, c, d))

\* Python's < on str, stated without recursion.
LexLess(x, y) ==
  \E k \in 0..Len(x) :
    /\ k <= Len(y)
    /\ \A i \in 1..k : x[i] = y[i]
    /\ \/ k = Len(x) /\ k < Len(y)
       \/ k < Len(x) /\ k < Len(y) /\ Ord(x[k + 1]) < Ord(y[k + 1])

Blank(s) == \A i \in 1..Len(s) : s[i] \in Whitespace

(* ---------------------------------------------------------------------- *)
(* Properties of the Decomposer's parser (SpecParse)                       *)
(* ---------------------------------------------------------------------- *)

ParsedLabels == IF subcategories = NoneList THEN <<>> ELSE subcategories

NumberedLinesOf(text) == SelectSeq(split(text, "\n"), IsNumberedLine)

\* C3: the parser returns exactly one label per line of the response that
\* is "integer, period, optional whitespace, text", in the order of the
\* lines, each label being the text up to a colon-introduced clause, trimmed
\* and without surrounding asterisks; every other line is skipped; the
\* example response yields exactly Foo, Baz, Qux.
C3_ParserLabels ==
  (pc = "parsed" /\ response.ok) =>
    LET ml == NumberedLinesOf(response.data)
    IN  /\ Len(ParsedLabels) = Len(ml)
        /\ \A i \in 1..Len(ml) : IsLabelOf(ParsedLabels[i], ml[i])
        /\ response.data = ParserExample => subcategories = ParserExampleLabels

C3_Witness ==
  /\ pc = "parsed"
  /\ response.ok
  /\ response.data = ParserExample
  /\ subcategories = ParserExampleLabels

\* C4: a response without any numbered line (the empty response included)
\* makes generate_subcategories return None, and so does a failed engine
\* call; a result that is not None holds at least one subcategory.
C4_NoEmptySuccess ==
  pc = "parsed" =>
    /\ (~response.ok \/ NumberedLinesOf(response.data) = <<>>) => subcategories = NoneList
    /\ subcategories # NoneList => Len(subcategories) >= 1

C4_Witness ==
  /\ pc = "parsed"
  /\ response.ok
  /\ response.data # <<>>
  /\ NumberedLinesOf(response.data) = <<>>
  /\ subcategories = NoneList

(* ---------------------------------------------------------------------- *)
(* Properties of the Reference Consolidator (SpecRefs)                     *)
(* ---------------------------------------------------------------------- *)

\* C5: the consolidated list holds exactly the distinct non-empty trimmed
\* values of the input, in strictly ascending code point order: no entry is
\* empty or has surrounding whitespace, no two entries are equal, and every
\* non-blank input entry appears trimmed.
C5_ConsolidatedList ==
  pc = "consolidated" =>
    LET out == unique_references
        inp == all_references
    IN  /\ \A i \in 1..Len(out) :
             /\ out[i] # <<>>
             /\ out[i][1] \notin Whitespace
             /\ out[i][Len(out[i])] \notin Whitespace
             /\ \E j \in 1..Len(inp) : IsTrimOf(out[i], inp[j])
        /\ \A i \in 1..Len(out) : \A j \in 1..Len(out) :
             i < j => out[i] # out[j] /\ LexLess(out[i], out[j])
        /\ \A j \in 1..Len(inp) :
             ~Blank(inp[j]) => \E i \in 1..Len(out) : IsTrimOf(out[i], inp[j])

C5_Witness ==
  /\ pc = "consolidated"
  /\ Len(all_references) = 2
  /\ all_references[1] # all_references[2]
  /\ Len(unique_references) = 1
  /\ unique_references[1] # all_references[1]

\* C6: consolidating the consolidated list changes nothing.
C6_Idempotent ==
  pc = "consolidated" => consolidate(unique_references) = unique_references

C6_Witness ==
  /\ pc = "consolidated"
  /\ Len(unique_references) = 2
  /\ unique_references # all_references

(* ---------------------------------------------------------------------- *)
(* Properties of main() (Spec)                                             *)
(* ---------------------------------------------------------------------- *)

LoopPositions == {"research", "synth", "collect"}

AfterLoop == {"check", "coalesce", "return"}

SomeNarrative == \E i \in 1..Len(results) : truthy(results[i].text)

\* C1: a file exists only when the Decomposer returned at least one
\* subcategory, some subcategory produced a narrative and the Coalescer's
\* engine call answered with non-empty text; a run that ended at the
\* Decomposer or at the Coalescer wrote nothing; there is never more than
\* one file.
C1_FileOnlyAfterSuccess ==
  /\ Len(files) <= 1
  /\ files # <<>> =>
       /\ subcategories # NoneList /\ Len(subcategories) >= 1
       /\ SomeNarrative
       /\ all_research_findings # <<>>
       /\ response.ok /\ response.data # <<>>
       /\ pc = "return"
  /\ (pc \in {"decompose", "coalesce"} /\ exit_status # Running) => files = <<>>

C1_Witness ==
  /\ files # <<>>
  /\ pc = "return"
  /\ exit_status = 0

\* C2: a subcategory without evidence, with a failed synthesis call or with
\* an empty synthesized text does not end the loop: the run leaves the loop
\* only with one result per subcategory, it never exits with status 1 inside
\* the loop because of such a failure, and after the loop it aborts exactly
\* when no subcategory produced a narrative.
C2_LoopSwallowsFailures ==
  /\ pc \in LoopPositions => Len(results) = idx - 1 /\ idx <= Len(subcategories)
  /\ pc \in AfterLoop => Len(results) = Len(subcategories)
  /\ (pc \in LoopPositions /\ exit_status = 1) =>
       /\ pc = "research"
       /\ variant = "openalex"
       /\ \E i \in 1..Len(search_results) : join_raises(search_results[i])
  /\ (pc = "check" /\ exit_status = 1) => ~SomeNarrative
  /\ pc \in {"coalesce", "return"} => SomeNarrative

C2_Witness ==
  /\ pc = "coalesce"
  /\ Len(results) = 3
  /\ results[1].text = None
  /\ results[2].text = <<>>
  /\ truthy(results[3].text)

\* C7: when the Evidence Provider answered with an empty sequence,
\* research_subcategory returns (None, []) and no engine request was sent
\* for that subcategory.
C7_ShortCircuit ==
  (pc = "collect" /\ search_results = <<>>) =>
    /\ ret = [text |-> None, refs |-> <<>>]
    /\ \A k \in 1..Len(calls) : calls[k] # EngineCall("research", idx)

C7_Witness ==
  /\ pc = "collect"
  /\ search_results = <<>>
  /\ calls[Len(calls)] = EvidenceCall(idx)

\* C8 as stated: with at least one record and a failed synthesis call,
\* research_subcategory returns None and the references built from the
\* records, one per record.
C8_Original ==
  (pc = "collect" /\ search_results # <<>> /\ ~response.ok) =>
    /\ ret.text = None
    /\ ret.refs # <<>>
    /\ Len(ret.refs) = Len(search_results)
    /\ \A i \in 1..Len(ret.refs) : ret.refs[i] = ref_string(variant, search_results[i])

\* C8: with at least one record and a failed synthesis call,
\* research_subcategory returns (None, []): the references it built from
\* the records are not returned.
C8_FailureDropsReferences ==
  (pc = "collect" /\ search_results # <<>> /\ ~response.ok) =>
    ret = [text |-> None, refs |-> <<>>]

C8_Witness ==
  /\ pc = "collect"
  /\ search_results # <<>>
  /\ references # <<>>
  /\ ~response.ok
  /\ calls[Len(calls)] = EngineCall("research", idx)

MissingCredential ==
  \/ ~environ.AMPLIFY_API_KEY
  \/ variant = "search" /\ ~google_credentials(environ)

\* C9 as stated: when a required credential is missing (the engine key, or
\* in the web-search variant the search key or the engine id) the run never
\* gets to the Decomposer and sends no network request.
C9_Original ==
  MissingCredential =>
    /\ calls = <<>>
    /\ subcategories = NoneList
    /\ pc \notin LoopPositions \cup AfterLoop

AcceptedFormats == {Fmt_txt, Fmt_md, Fmt_docx}

\* C10 as stated: an empty topic, or a format token that is not one of txt,
\* md, docx, ends the run with status 1, without network request or file.
C10_Original ==
  (main_topic = <<>> \/ (format_input # None /\ format_input \notin AcceptedFormats)) =>
    /\ exit_status = 1
    /\ calls = <<>>
    /\ files = <<>>

\* C10: an empty topic, or a format token that, lowercased, is not one of
\* txt, md, docx, ends the run with status 1 where it was read, without any
\* network request or file.
C10_RejectedBeforePipeline ==
  (main_topic = <<>> \/ (format_input # None /\ lower(format_input) \notin AcceptedFormats)) =>
    /\ exit_status = 1
    /\ pc \in {"topic", "format"}
    /\ calls = <<>>
    /\ files = <<>>

C10_Witness ==
  /\ format_input = <<"p", "d", "f">>
  /\ main_topic # <<>>
  /\ exit_status = 1

Exited == exit_status # Running

FailureMessages ==
  {MsgNoKey, MsgNoTopic, MsgInvalidFormat, MsgNoSubcategories, MsgNoData,
   MsgNoPaper, MsgUnexpected}

\* C11: a run that ends on a missing topic, an invalid format, an absent
\* credential, a Decomposer failure, all subcategories failing or a Coalescer
\* failure ends with status 1 (the only other ending is the user's
\* interrupt); status 0 with the confirmation line happens only with the
\* file written.
C11_ExitStatus ==
  /\ printed \in FailureMessages => exit_status = 1
  /\ main_topic = <<>> => exit_status = 1 /\ printed = MsgNoTopic
  /\ (format_input # None /\ lower(format_input) \notin AcceptedFormats) =>
       exit_status = 1 /\ printed = MsgInvalidFormat
  /\ (Exited /\ printed # MsgCancelled) =>
       /\ MissingCredential => exit_status = 1
       /\ pc = "decompose" => exit_status = 1 /\ printed = MsgNoSubcategories
       /\ (pc \in AfterLoop /\ ~SomeNarrative) => exit_status = 1 /\ printed = MsgNoData
       /\ pc = "coalesce" => exit_status = 1 /\ printed = MsgNoPaper
  /\ exit_status = 0 => printed \in {MsgSaved, MsgCancelled}
  /\ printed = MsgSaved => exit_status = 0 /\ pc = "return" /\ Len(files) = 1

C11_Witness ==
  /\ printed = MsgSaved
  /\ exit_status = 0
  /\ Len(files) = 1

MdHeadingLine == <<"#", "#", " ", "R", "e", "f", "e", "r", "e", "n", "c", "e", "s">>

HasMdHeading(text) ==
  \E i \in 1..Len(split(text, "\n")) : split(text, "\n")[i] = MdHeadingLine

\* us is the consolidated form of refs: trimmed, non-blank, strictly
\* ascending, and covering every non-blank entry of refs.
IsConsolidationOf(us, refs) ==
  /\ \A i \in 1..Len(us) :
       us[i] # <<>> /\ \E j \in 1..Len(refs) : IsTrimOf(us[i], refs[j])
  /\ \A i \in 1..Len(us) : \A j \in 1..Len(us) : i < j => LexLess(us[i], us[j])
  /\ \A j \in 1..Len(refs) :
       ~Blank(refs[j]) => \E i \in 1..Len(us) : IsTrimOf(us[i], refs[j])

\* C12: for format md and a coalesced body without a "## References"
\* line, the file is the body, a blank line, the one "## References" line,
\* a blank line and then one "- <reference>" line per consolidated
\* reference, ascending, with nothing after them.
C12_MarkdownLayout ==
  (files # <<>> /\ doc_format = Fmt_md /\ ~HasMdHeading(response.data)) =>
    LET lines == split(files[1].text, "\n")
        body  == split(response.data, "\n")
        m     == Len(body)
        n     == Len(unique_references)
    IN  /\ n >= 1
        /\ IsConsolidationOf(unique_references, all_references)
        /\ Len(lines) = m + 3 + n
        /\ \A i \in 1..m : lines[i] = body[i]
        /\ lines[m + 1] = <<>>
        /\ lines[m + 2] = MdHeadingLine
        /\ lines[m + 3] = <<>>
        /\ \A j \in 1..n : lines[m + 3 + j] = <<"-", " ">> \o unique_references[j]
        /\ Cardinality({i \in 1..Len(lines) : lines[i] = MdHeadingLine}) = 1

C12_Witness ==
  /\ files # <<>>
  /\ doc_format = Fmt_md
  /\ ~HasMdHeading(response.data)
  /\ Len(unique_references) >= 2
  /\ Len(all_references) > Len(unique_references)

\* The narratives of the results that have one, in the order of the results.
RECURSIVE NarrativesOf(_)
NarrativesOf(rs) ==
  IF rs = <<>> THEN <<>>
  ELSE (IF rs[1].text # None /\ rs[1].text # <<>> THEN <<rs[1].text>> ELSE <<>>)
         \o NarrativesOf(Tail(rs))

\* The references of the results that have a narrative, in order.
RECURSIVE ReferencesOfNarrated(_)
ReferencesOfNarrated(rs) ==
  IF rs = <<>> THEN <<>>
  ELSE (IF rs[1].text # None /\ rs[1].text # <<>> THEN rs[1].refs ELSE <<>>)
         \o ReferencesOfNarrated(Tail(rs))

\* C13: the narratives accumulator changes only by one narrative being
\* appended, and it always is the sequence of the narratives of the
\* subcategory results in the order of the subcategories; that is the list
\* the Coalescer gets.
C13_NarrativesInOrder ==
  /\ [](/\ all_research_findings = NarrativesOf(results)
        /\ Len(results) <= Len(subcategories))
  /\ [][all_research_findings' # all_research_findings =>
          /\ Len(all_research_findings') = Len(all_research_findings) + 1
          /\ SubSeq(all_research_findings', 1, Len(all_research_findings))
               = all_research_findings]_vars

C13_Witness ==
  /\ pc = "coalesce"
  /\ Len(results) = 3
  /\ results[1].text # None /\ results[1].text # <<>>
  /\ results[2].text = None
  /\ results[3].text # None /\ results[3].text # <<>>
  /\ results[1].text # results[3].text
  /\ all_research_findings = <<results[1].text, results[3].text>>

\* C14: the references accumulator holds exactly the references returned
\* for the subcategories whose narrative was appended, in order; a
\* subcategory with evidence but a failed or empty synthesis adds none.
C14_ReferencesOfNarrated ==
  /\ all_references = ReferencesOfNarrated(results)
  /\ files # <<>> => IsConsolidationOf(unique_references, ReferencesOfNarrated(results))

C14_Witness ==
  /\ pc = "coalesce"
  /\ Len(results) = 2
  /\ results[1].text = <<>>
  /\ results[1].refs # <<>>
  /\ results[2].text # None /\ results[2].text # <<>>
  /\ all_references = results[2].refs

\* Position of a request in the order main() prescribes.
CallRank(c) ==
  IF c.by = "decompose" THEN 0
  ELSE IF c.by = "research" THEN 2 * c.sub + (IF c.svc = "engine" THEN 1 ELSE 0)
  ELSE 2 * Len(subcategories) + 2

\* C15: the requests go out one after another in the prescribed order: the
\* Decomposer's engine request first, then per subcategory, in order, at
\* most one evidence request followed by at most one engine request, then
\* at most one Coalescer request; none is repeated, so N subcategories see
\* at most N evidence requests and N + 2 engine requests.
C15_SequentialCalls ==
  LET n == IF subcategories = NoneList THEN 0 ELSE Len(subcategories)
  IN  /\ \A k \in 1..Len(calls) :
           /\ calls[k].by = "research" => calls[k].sub \in 1..n
           /\ calls[k].by # "research" => calls[k].svc = "engine"
           /\ k = 1 => calls[k].by = "decompose"
           /\ k > 1 => CallRank(calls[k - 1]) < CallRank(calls[k])
           /\ (calls[k].by = "research" /\ calls[k].svc = "engine") =>
                /\ k > 1
                /\ calls[k - 1].svc = "evidence"
                /\ calls[k - 1].sub = calls[k].sub
      /\ Cardinality({k \in 1..Len(calls) : calls[k].svc = "evidence"}) <= n
      /\ Cardinality({k \in 1..Len(calls) : calls[k].svc = "engine"}) <= n + 2
      /\ pc \in LoopPositions \cup AfterLoop => calls # <<>>

C15_Witness ==
  /\ pc = "return"
  /\ Len(subcategories) = 3
  /\ Len(calls) = 8

\* C16 as stated: in both variants every evidence request asks for at most
\* 5 results, and the records and the references research_subcategory
\* works with number at most 5.
C16_Original ==
  /\ \A k \in 1..Len(calls) : calls[k].svc = "evidence" => calls[k].count \in 1..5
  /\ Len(search_results) <= 5
  /\ Len(references) <= 5
  /\ Len(ret.refs) <= 5

TxtHeadingLine == <<"R", "e", "f", "e", "r", "e", "n", "c", "e", "s">>

\* The written file carries its References section with at least one entry.
HasReferencesSection(file) ==
  IF file.ext = Fmt_docx
  THEN \E k \in 1..(Len(file.doc) - 1) :
         /\ file.doc[k] = [style |-> "heading1", text |-> TxtHeadingLine]
         /\ file.doc[k + 1].style = "reference"
         /\ file.doc[Len(file.doc)].style = "reference"
  ELSE LET lines == split(file.text, "\n")
       IN  \E k \in 1..(Len(lines) - 2) :
             /\ lines[k] = (IF file.ext = Fmt_md THEN MdHeadingLine ELSE TxtHeadingLine)
             /\ lines[k + 1] = <<>>
             /\ lines[k + 2] # <<>>

\* C17: when the Coalescer is invoked the narratives accumulator is not
\* empty and holds no empty narrative, every narrated subcategory brought
\* at least one reference, so the references accumulator is at least as long
\* as the narratives one; the consolidated list of a written file is not
\* empty and the file has its References section, the docx heading included.
C17_CoalescerInput ==
  /\ pc \in {"coalesce", "return"} =>
       /\ all_research_findings # <<>>
       /\ \A i \in 1..Len(all_research_findings) :
            all_research_findings[i] # None /\ Len(all_research_findings[i]) >= 1
       /\ \A i \in 1..Len(results) :
            (results[i].text # None /\ results[i].text # <<>>) => Len(results[i].refs) >= 1
       /\ Len(all_references) >= Len(all_research_findings)
       /\ \E j \in 1..Len(all_references) : ~Blank(all_references[j])
  /\ files # <<>> =>
       /\ Len(unique_references) >= 1
       /\ HasReferencesSection(files[1])

C17_Witness ==
  /\ files # <<>>
  /\ doc_format = Fmt_docx
  /\ HasReferencesSection(files[1])
  /\ Len(all_research_findings) >= 2

====
